---- MODULE Spec2Model ----
(***************************************************************************)
(* A model of jupiter-swap-api-client:                                     *)
(*   - lib.rs: JupiterSwapApiClient, its two constructors, the three       *)
(*     remote calls (quote, swap, swap_instructions) and the shared        *)
(*     status/decoding helpers;                                            *)
(*   - transaction_config.rs: the serde representation of                  *)
(*     ComputeUnitPriceMicroLamports, PrioritizationFeeLamports and        *)
(*     TransactionConfig.                                                  *)
(* Spec is the client under concurrent calls; SpecSerde applies the        *)
(* encoders and decoders to bounded sets of values.                        *)
(***************************************************************************)
EXTENDS Integers, Sequences, FiniteSets, TLC

VARIABLES client, panicked, calls, sval, sty, sjson, sback

vars == <<client, panicked, calls, sval, sty, sjson, sback>>
clientVars == <<client, panicked, calls>>
serdeVars == <<sval, sty, sjson, sback>>

(***************************************************************************)
(* Bounds                                                                  *)
(***************************************************************************)
\* number of calls issued on the one client, all possibly in flight together
MaxCalls == 2
\* largest numeric payload (a u64 in the source) the serde checks enumerate
MaxN == 2

CallIds == 1..MaxCalls
U64s == 0..MaxN

(***************************************************************************)
(* Result<T, E> and Option<T>                                              *)
(***************************************************************************)
Ok(v) == [tag |-> "Ok", value |-> v]
Err(e) == [tag |-> "Err", error |-> e]
IsOk(r) == r.tag = "Ok"
IsErr(r) == r.tag = "Err"
Pending == [tag |-> "Pending"]
None == [tag |-> "None"]
Some(v) == [tag |-> "Some", value |-> v]

(***************************************************************************)
(* lib.rs: the client                                                      *)
(***************************************************************************)
NoClient == [tag |-> "unconstructed"]
\* the process has not panicked / has panicked with a message
NoPanic == [tag |-> "running"]
Panic(msg) == [tag |-> "panic", msg |-> msg]

BasePaths == {"https://quote-api.jup.ag/v6"}
\* API keys as byte strings: "k1", "k2", "" and "k\n"
ApiKeys == {<<107, 49>>, <<107, 50>>, <<>>, <<107, 10>>}

\* http::HeaderValue::from_str as called at lib.rs:84: every byte must be
\* >= 32 and not DEL, or a tab
HeaderValue_from_str(s) ==
    IF \A i \in 1..Len(s) : (s[i] >= 32 /\ s[i] /= 127) \/ s[i] = 9
    THEN Ok(s)
    ELSE Err("InvalidHeaderValue")

\* the builder settings of build_optimized_client
TransportConfig ==
    [timeout_secs |-> 30, connect_timeout_secs |-> 10,
     pool_max_idle_per_host |-> 10, pool_idle_timeout_secs |-> 90,
     http2_adaptive_window |-> TRUE, gzip |-> TRUE]

\* build_optimized_client with the default headers never installed
M_build_optimized_client_no_headers(api_key, build_ok) ==
    LET hv == IF api_key.tag = "Some"
              THEN HeaderValue_from_str(api_key.value)
              ELSE Ok(<<>>)
    IN  IF api_key.tag = "Some" /\ IsErr(hv) THEN Err("unwrap on InvalidHeaderValue")
        ELSE IF ~build_ok THEN Err("unwrap on builder error")
        ELSE Ok([config |-> TransportConfig, default_headers |-> {}])

\* build_optimized_client with `if let Ok(v) = HeaderValue::from_str(..)` in
\* place of the unwrap(): an unencodable key is skipped
M_build_optimized_client_skip_invalid(api_key, build_ok) ==
    LET hv == IF api_key.tag = "Some"
              THEN HeaderValue_from_str(api_key.value)
              ELSE Ok(<<>>)
        headers == IF api_key.tag = "Some" /\ IsOk(hv)
                   THEN {<<"x-api-key", hv.value>>}
                   ELSE {}
    IN  IF ~build_ok THEN Err("unwrap on builder error")
        ELSE Ok([config |-> TransportConfig, default_headers |-> headers])

\* build_optimized_client(api_key): Ok(Client) or the panic of one of its two
\* unwrap()s; build_ok is whether ClientBuilder::build() succeeds
build_optimized_client(api_key, build_ok) ==
    LET hv == IF api_key.tag = "Some"
              THEN HeaderValue_from_str(api_key.value)
              ELSE Ok(<<>>)
        headers == IF api_key.tag = "Some" /\ IsOk(hv)
                   THEN {<<"x-api-key", hv.value>>}
                   ELSE {}
    IN  IF api_key.tag = "Some" /\ IsErr(hv) THEN Err("unwrap on InvalidHeaderValue")
        ELSE IF ~build_ok THEN Err("unwrap on builder error")
        ELSE Ok([config |-> TransportConfig, default_headers |-> headers])

\* JupiterSwapApiClient::new
new(base_path, build_ok) ==
    /\ client = NoClient /\ panicked = NoPanic
    /\ LET c == build_optimized_client(None, build_ok)
       IN  IF IsOk(c)
           THEN /\ client' = [tag |-> "client", base_path |-> base_path,
                              api_key |-> None, client |-> c.value]
                /\ UNCHANGED panicked
           ELSE /\ panicked' = Panic(c.error)
                /\ UNCHANGED client
    /\ UNCHANGED <<calls, serdeVars>>

\* JupiterSwapApiClient::new_with_api_key
new_with_api_key(base_path, api_key, build_ok) ==
    /\ client = NoClient /\ panicked = NoPanic
    /\ LET c == build_optimized_client(Some(api_key), build_ok)
       IN  IF IsOk(c)
           THEN /\ client' = [tag |-> "client", base_path |-> base_path,
                              api_key |-> Some(api_key), client |-> c.value]
                /\ UNCHANGED panicked
           ELSE /\ panicked' = Panic(c.error)
                /\ UNCHANGED client
    /\ UNCHANGED <<calls, serdeVars>>

(***************************************************************************)
(* lib.rs: responses and the two helpers                                   *)
(***************************************************************************)
Statuses == {200, 400}
\* response bodies: the JSON of each wire type, and a plain-text body
JsonOf(T) == [text |-> T, json_of |-> T]
PlainTextBody == [text |-> "bad request", json_of |-> "nothing"]
Bodies == {JsonOf("QuoteResponse"), JsonOf("SwapResponse"),
           JsonOf("SwapInstructionsResponseInternal"), PlainTextBody}
Responses == [status : Statuses, body : Bodies]
NoResponse == [status |-> 0, body |-> [text |-> "", json_of |-> "nothing"]]

\* the {:?} form of a value inside a formatted message: the value written
\* out with its constructor, a string quoted and escaped
Debug(x) == [fmt |-> "{:?}", of |-> x]

\* StatusCode::is_success
is_success(status) == status >= 200 /\ status < 300

\* Response::text(): the body text, or the error of reading the body
text(response, body_read_ok) ==
    IF body_read_ok THEN Ok(response.body.text) ELSE Err("reqwest::Error(body)")

\* Response::json::<T>(): the decoded value, or a reqwest error
json(response, T, body_read_ok) ==
    IF body_read_ok /\ response.body.json_of = T
    THEN Ok([type |-> T, from |-> response.body.text])
    ELSE Err([kind |-> "decode", is |-> "reqwest::Error"])

\* check_is_success with `response.text().await?`: a failed body read is
\* returned in place of the status error
M_check_is_success_masked(response, body_read_ok) ==
    IF ~is_success(response.status)
    THEN IF body_read_ok
         THEN Err([kind |-> "status", is |-> "anyhow message",
                   code |-> response.status,
              body |-> Debug(text(response, body_read_ok))])
         ELSE Err([kind |-> "transport", is |-> "reqwest::Error"])
    ELSE Ok(response)

\* check_is_success: the response itself, or the status error whose message
\* is "Request status not ok: {}, body: {:?}" filled with the status (its
\* code, followed by the reason phrase) and the result of reading the body
check_is_success(response, body_read_ok) ==
    IF ~is_success(response.status)
    THEN Err([kind |-> "status", is |-> "anyhow message",
              code |-> response.status,
              body |-> Debug(text(response, body_read_ok))])
    ELSE Ok(response)

\* check_status_code_and_deserialize with the decode failure re-wrapped in
\* the message of the status error
M_check_status_code_and_deserialize_rewrapped(response, T, body_read_ok) ==
    LET checked == check_is_success(response, body_read_ok)
        decoded == json(response, T, body_read_ok)
    IN  IF IsErr(checked) THEN checked
        ELSE IF IsOk(decoded) THEN decoded
        ELSE Err([kind |-> "status", is |-> "anyhow message",
                  code |-> response.status,
              body |-> Debug(text(response, body_read_ok))])

\* check_status_code_and_deserialize::<T>
check_status_code_and_deserialize(response, T, body_read_ok) ==
    LET checked == check_is_success(response, body_read_ok)
    IN  IF IsErr(checked) THEN checked
        ELSE json(checked.value, T, body_read_ok)

(***************************************************************************)
(* lib.rs: the three calls.  A call is an async fn; the model steps it at   *)
(* its await points: the synchronous part up to send(), the completion of  *)
(* send().await, and the completion of the body read (text().await or      *)
(* json().await).  Errors are named after the place that returns them:     *)
(* "serialize" is the ? on serde_qs::to_string, "transport" the ? on       *)
(* send().await, "status" the Err of check_is_success, "decode" the Err of *)
(* json::<T>().await.                                                      *)
(***************************************************************************)
Ops == {"quote", "swap", "swap_instructions"}
\* a request value; encodable is whether its Serialize impl succeeds
Requests == [id : {"r1"}, encodable : BOOLEAN]
NoRequest == [id |-> "none", encodable |-> TRUE]

IdleCall == [pc |-> "idle", op |-> "none", request |-> NoRequest, wire |-> <<>>,
             response |-> NoResponse, body_read_ok |-> FALSE, result |-> Pending]

\* DecodedAs with swap_instructions decoding the public type directly
M_DecodedAs_public(op) ==
    CASE op = "quote" -> "QuoteResponse"
      [] op = "swap" -> "SwapResponse"
      [] op = "swap_instructions" -> "SwapInstructionsResponse"

\* the type each call asks check_status_code_and_deserialize for
DecodedAs(op) ==
    CASE op = "quote" -> "QuoteResponse"
      [] op = "swap" -> "SwapResponse"
      [] op = "swap_instructions" -> "SwapInstructionsResponseInternal"

\* From<SwapInstructionsResponseInternal> for SwapInstructionsResponse
SwapInstructionsResponse_from(internal) ==
    [type |-> "SwapInstructionsResponse", from |-> internal.from]

\* Result::map
Result_map(r, op) ==
    IF IsOk(r) /\ op = "swap_instructions"
    THEN Ok(SwapInstructionsResponse_from(r.value))
    ELSE r

\* self.client.get(..)/.post(..): the request as handed to the transport,
\* carrying the default headers of the client built at construction
Request_of(method, path, payload) ==
    [method |-> method, base |-> client.base_path, path |-> path,
     payload |-> payload, headers |-> client.client.default_headers]

\* what a call returns once the response is in and its body has been read
call_result(op, response, body_read_ok) ==
    Result_map(check_status_code_and_deserialize(response, DecodedAs(op), body_read_ok), op)

\* quote, up to send(): serde_qs::to_string(..)? then GET {base_path}/quote?{query}
quote(c, quote_request) ==
    /\ client /= NoClient
    /\ calls[c].pc = "idle"
    /\ IF ~quote_request.encodable
       THEN calls' = [calls EXCEPT ![c] =
                [@ EXCEPT !.pc = "done", !.op = "quote", !.request = quote_request,
                          !.result = Err([kind |-> "serialize", is |-> "serde_qs::Error"])]]
       ELSE calls' = [calls EXCEPT ![c] =
                [@ EXCEPT !.pc = "send", !.op = "quote", !.request = quote_request,
                          !.wire = Append(@, Request_of("GET", "/quote", "query"))]]
    /\ UNCHANGED <<client, panicked, serdeVars>>

\* the part swap and swap_instructions share: POST {base_path}{path} with the
\* request as JSON body; a body that fails to encode makes send() return the
\* builder's error without a request going out
post_json(c, op, path, swap_request) ==
    /\ client /= NoClient
    /\ calls[c].pc = "idle"
    /\ IF ~swap_request.encodable
       THEN calls' = [calls EXCEPT ![c] =
                [@ EXCEPT !.pc = "done", !.op = op, !.request = swap_request,
                          !.result = Err([kind |-> "transport", is |-> "reqwest::Error"])]]
       ELSE calls' = [calls EXCEPT ![c] =
                [@ EXCEPT !.pc = "send", !.op = op, !.request = swap_request,
                          !.wire = Append(@, Request_of("POST", path, "json"))]]
    /\ UNCHANGED <<client, panicked, serdeVars>>

\* swap, up to send()
swap(c, swap_request) == post_json(c, "swap", "/swap", swap_request)

\* swap_instructions, up to send()
swap_instructions(c, swap_request) ==
    post_json(c, "swap_instructions", "/swap-instructions", swap_request)

\* send_fails with one retry: the request is sent again
M_send_fails_retry(c) ==
    /\ calls[c].pc = "send"
    /\ Len(calls[c].wire) < 2
    /\ calls' = [calls EXCEPT ![c] = [@ EXCEPT !.wire = Append(@, @[1])]]
    /\ UNCHANGED <<client, panicked, serdeVars>>

\* the JSON document each endpoint of the swap service answers with
EndpointType(path) ==
    CASE path = "/quote" -> "QuoteResponse"
      [] path = "/swap" -> "SwapResponse"
      [] path = "/swap-instructions" -> "SwapInstructionsResponseInternal"

\* the answers the server may give to a request: any status, with the
\* endpoint's JSON document or with a plain-text body
ResponsesTo(request) ==
    {r \in Responses :
        r.body \in {JsonOf(EndpointType(request.path)), PlainTextBody}}

\* send().await? fails: the transport error is returned as it is
send_fails(c) ==
    /\ calls[c].pc = "send"
    /\ calls' = [calls EXCEPT ![c] =
            [@ EXCEPT !.pc = "done",
                      !.result = Err([kind |-> "transport", is |-> "reqwest::Error"])]]
    /\ UNCHANGED <<client, panicked, serdeVars>>

\* send_completes behind a lock held while another call reads its body
M_send_completes_exclusive(c, response) ==
    /\ calls[c].pc = "send"
    /\ response \in ResponsesTo(calls[c].wire[1])
    /\ \A d \in CallIds \ {c} : calls[d].pc /= "body"
    /\ calls' = [calls EXCEPT ![c] = [@ EXCEPT !.pc = "body", !.response = response]]
    /\ UNCHANGED <<client, panicked, serdeVars>>

\* send().await? yields a response, the server's answer to the request sent
send_completes(c, response) ==
    /\ calls[c].pc = "send"
    /\ response \in ResponsesTo(calls[c].wire[1])
    /\ calls' = [calls EXCEPT ![c] = [@ EXCEPT !.pc = "body", !.response = response]]
    /\ UNCHANGED <<client, panicked, serdeVars>>

\* check_status_code_and_deserialize(response).await completes
body_completes(c, body_read_ok) ==
    /\ calls[c].pc = "body"
    /\ calls' = [calls EXCEPT ![c] =
            [@ EXCEPT !.pc = "done", !.body_read_ok = body_read_ok,
                      !.result = call_result(calls[c].op, calls[c].response,
                                              body_read_ok)]]
    /\ UNCHANGED <<client, panicked, serdeVars>>

(***************************************************************************)
(* The client under concurrent calls                                       *)
(***************************************************************************)
NoValue == [ty |-> "none"]
NoJson == [j |-> "none"]

Init ==
    /\ client = NoClient
    /\ panicked = NoPanic
    /\ calls = [c \in CallIds |-> IdleCall]
    /\ sval = NoValue
    /\ sty = "none"
    /\ sjson = NoJson
    /\ sback = Pending

Next ==
    \/ \E b \in BasePaths, ok \in BOOLEAN : new(b, ok)
    \/ \E b \in BasePaths, k \in ApiKeys, ok \in BOOLEAN : new_with_api_key(b, k, ok)
    \/ \E c \in CallIds, r \in Requests : quote(c, r)
    \/ \E c \in CallIds, r \in Requests : swap(c, r)
    \/ \E c \in CallIds, r \in Requests : swap_instructions(c, r)
    \/ \E c \in CallIds : send_fails(c)
    \/ \E c \in CallIds, r \in Responses : send_completes(c, r)
    \/ \E c \in CallIds, ok \in BOOLEAN : body_completes(c, ok)

Spec == Init /\ [][Next]_vars

(***************************************************************************)
(* transaction_config.rs: values and their serde representation.  JSON is  *)
(* modelled as a tree: null, booleans, numbers, strings and objects (a     *)
(* function from the keys that are present to their values).               *)
(***************************************************************************)
JNull == [j |-> "null"]
JBool(b) == [j |-> "bool", b |-> b]
JNum(n) == [j |-> "num", n |-> n]
JStr(str) == [j |-> "str", s |-> str]
JObj(fields) == [j |-> "obj", fields |-> fields]

\* enum ComputeUnitPriceMicroLamports
MicroLamports(n) == [v |-> "MicroLamports", n |-> n]
CuAuto == [v |-> "Auto"]
ComputeUnitPriceMicroLamports == {MicroLamports(n) : n \in U64s} \cup {CuAuto}

\* enum PrioritizationFeeLamports
PfAuto == [v |-> "Auto"]
AutoMultiplier(n) == [v |-> "AutoMultiplier", n |-> n]
JitoTipLamports(n) == [v |-> "JitoTipLamports", n |-> n]
PrioritizationFeeLamports ==
    {PfAuto} \cup {AutoMultiplier(n) : n \in U64s} \cup {JitoTipLamports(n) : n \in U64s}

\* #[serde(rename_all = "camelCase")] applied to a variant or field name
camelCase(name) ==
    CASE name = "Auto" -> "auto"
      [] name = "AutoMultiplier" -> "autoMultiplier"
      [] name = "JitoTipLamports" -> "jitoTipLamports"
      [] name = "MicroLamports" -> "microLamports"
      [] name = "wrap_and_unwrap_sol" -> "wrapAndUnwrapSol"
      [] name = "fee_account" -> "feeAccount"
      [] name = "destination_token_account" -> "destinationTokenAccount"
      [] name = "compute_unit_price_micro_lamports" -> "computeUnitPriceMicroLamports"
      [] name = "prioritization_fee_lamports" -> "prioritizationFeeLamports"
      [] name = "dynamic_compute_unit_limit" -> "dynamicComputeUnitLimit"
      [] name = "as_legacy_transaction" -> "asLegacyTransaction"
      [] name = "use_shared_accounts" -> "useSharedAccounts"
      [] name = "use_token_ledger" -> "useTokenLedger"
      [] name = "blockhash_slots_to_expiry" -> "blockhashSlotsToExpiry"

\* derive(Serialize) on ComputeUnitPriceMicroLamports: the enum is untagged,
\* so a newtype variant is written as its content and a unit variant as unit
ser_ComputeUnitPriceMicroLamports(x) ==
    IF x.v = "MicroLamports" THEN JNum(x.n) ELSE JNull

\* derive(Serialize) on PrioritizationFeeLamports as if the commented-out
\* #[serde(untagged)] were in force
M_ser_PrioritizationFeeLamports_untagged(x) ==
    IF x.v = "Auto" THEN JNull ELSE JNum(x.n)

\* derive(Serialize) on PrioritizationFeeLamports: externally tagged, so a
\* unit variant is written as its name and a newtype variant as {name: content}
ser_PrioritizationFeeLamports(x) ==
    IF x.v = "Auto"
    THEN JStr(camelCase(x.v))
    ELSE JObj((camelCase(x.v) :> JNum(x.n)))

\* fn auto: Helper::deserialize, an enum whose only variant is the unit
\* variant "auto"; it reads the string "auto" or the object {"auto": null}
auto(d) ==
    IF d = JStr("auto") \/ d = JObj(("auto" :> JNull))
    THEN Ok("unit")
    ELSE Err("Helper: unknown variant or invalid type")

\* derive(Deserialize) on ComputeUnitPriceMicroLamports: untagged, so the
\* variants are tried in order: MicroLamports(u64), then Auto through auto
de_ComputeUnitPriceMicroLamports(d) ==
    IF d.j = "num" THEN Ok(MicroLamports(d.n))
    ELSE IF IsOk(auto(d)) THEN Ok(CuAuto)
    ELSE Err("data did not match any variant of untagged enum")

\* derive(Deserialize) on PrioritizationFeeLamports: externally tagged.  A
\* string names a variant with no content; a one-key object names a variant
\* and gives its content.  AutoMultiplier and JitoTipLamports read a u64
\* content; Auto, having deserialize_with, hands its content to auto.  No
\* variant can be read from a string, which gives no content.
de_PrioritizationFeeLamports(d) ==
    LET variants == {camelCase("Auto"), camelCase("AutoMultiplier"),
                     camelCase("JitoTipLamports")}
    IN  IF d.j = "str"
        THEN IF d.s \in variants
             THEN Err("invalid type: unit variant, expected newtype variant")
             ELSE Err("unknown variant")
        ELSE IF d.j = "obj" /\ Cardinality(DOMAIN d.fields) = 1
        THEN LET k == CHOOSE key \in DOMAIN d.fields : TRUE
                 content == d.fields[k]
             IN  IF k = camelCase("Auto")
                 THEN IF IsOk(auto(content)) THEN Ok(PfAuto) ELSE auto(content)
                 ELSE IF k \in variants
                 THEN IF content.j = "num"
                      THEN Ok(IF k = camelCase("AutoMultiplier")
                              THEN AutoMultiplier(content.n)
                              ELSE JitoTipLamports(content.n))
                      ELSE Err("invalid type, expected u64")
                 ELSE Err("unknown variant")
        ELSE Err("invalid type, expected enum")

Pubkeys == {"11111111111111111111111111111111"}
Option(S) == {None} \cup {Some(x) : x \in S}

\* struct TransactionConfig
TransactionConfig ==
    [wrap_and_unwrap_sol : BOOLEAN,
     fee_account : Option(Pubkeys),
     destination_token_account : Option(Pubkeys),
     compute_unit_price_micro_lamports : Option(ComputeUnitPriceMicroLamports),
     prioritization_fee_lamports : Option(PrioritizationFeeLamports),
     dynamic_compute_unit_limit : BOOLEAN,
     as_legacy_transaction : BOOLEAN,
     use_shared_accounts : BOOLEAN,
     use_token_ledger : BOOLEAN,
     blockhash_slots_to_expiry : Option(U64s)]

\* a derived Default: every bool false, every Option None
M_TransactionConfig_default_derived ==
    [wrap_and_unwrap_sol |-> FALSE,
     fee_account |-> None,
     destination_token_account |-> None,
     compute_unit_price_micro_lamports |-> None,
     prioritization_fee_lamports |-> None,
     dynamic_compute_unit_limit |-> FALSE,
     as_legacy_transaction |-> FALSE,
     use_shared_accounts |-> FALSE,
     use_token_ledger |-> FALSE,
     blockhash_slots_to_expiry |-> None]

\* impl Default for TransactionConfig
TransactionConfig_default ==
    [wrap_and_unwrap_sol |-> TRUE,
     fee_account |-> None,
     destination_token_account |-> None,
     compute_unit_price_micro_lamports |-> None,
     prioritization_fee_lamports |-> None,
     dynamic_compute_unit_limit |-> FALSE,
     as_legacy_transaction |-> FALSE,
     use_shared_accounts |-> TRUE,
     use_token_ledger |-> FALSE,
     blockhash_slots_to_expiry |-> None]

\* serde_helpers::option_field_as_string::serialize: the value written for a
\* field that the derive has already given its key
option_field_as_string_serialize(x) ==
    IF x.tag = "Some" THEN JStr(x.value) ELSE JNull

\* derive(Serialize) on TransactionConfig: no field has skip_serializing_if,
\* so each of the ten fields is written under its camelCase key, an Option
\* as null when None
ser_TransactionConfig(cfg) ==
    LET opt(x, ser(_)) == IF x.tag = "Some" THEN ser(x.value) ELSE JNull
    IN  JObj(
         (camelCase("wrap_and_unwrap_sol") :> JBool(cfg.wrap_and_unwrap_sol))
      @@ (camelCase("fee_account") :> option_field_as_string_serialize(cfg.fee_account))
      @@ (camelCase("destination_token_account") :>
             option_field_as_string_serialize(cfg.destination_token_account))
      @@ (camelCase("compute_unit_price_micro_lamports") :>
             opt(cfg.compute_unit_price_micro_lamports, ser_ComputeUnitPriceMicroLamports))
      @@ (camelCase("prioritization_fee_lamports") :>
             opt(cfg.prioritization_fee_lamports, ser_PrioritizationFeeLamports))
      @@ (camelCase("dynamic_compute_unit_limit") :> JBool(cfg.dynamic_compute_unit_limit))
      @@ (camelCase("as_legacy_transaction") :> JBool(cfg.as_legacy_transaction))
      @@ (camelCase("use_shared_accounts") :> JBool(cfg.use_shared_accounts))
      @@ (camelCase("use_token_ledger") :> JBool(cfg.use_token_ledger))
      @@ (camelCase("blockhash_slots_to_expiry") :>
             opt(cfg.blockhash_slots_to_expiry, JNum)))

\* the types of transaction_config.rs
SerdeTypes == {"ComputeUnitPriceMicroLamports", "PrioritizationFeeLamports",
               "TransactionConfig"}
\* those that derive Deserialize
DeTypes == {"ComputeUnitPriceMicroLamports", "PrioritizationFeeLamports"}
ValuesOf(T) ==
    CASE T = "ComputeUnitPriceMicroLamports" -> ComputeUnitPriceMicroLamports
      [] T = "PrioritizationFeeLamports" -> PrioritizationFeeLamports
      [] T = "TransactionConfig" -> TransactionConfig

Serialize(T, x) ==
    CASE T = "ComputeUnitPriceMicroLamports" -> ser_ComputeUnitPriceMicroLamports(x)
      [] T = "PrioritizationFeeLamports" -> ser_PrioritizationFeeLamports(x)
      [] T = "TransactionConfig" -> ser_TransactionConfig(x)

Deserialize(T, d) ==
    CASE T = "ComputeUnitPriceMicroLamports" -> de_ComputeUnitPriceMicroLamports(d)
      [] T = "PrioritizationFeeLamports" -> de_PrioritizationFeeLamports(d)

\* JSON documents handed to a decoder as they come from a peer
JsonLiterals ==
    {JNull, JStr("auto"), JStr("autoMultiplier"), JStr("other")}
        \cup {JNum(n) : n \in U64s}
        \cup {JObj((k :> v)) : k \in {"auto", "autoMultiplier", "jitoTipLamports", "other"},
                               v \in {JNull, JStr("auto")} \cup {JNum(n) : n \in U64s}}

(***************************************************************************)
(* The encoders and decoders applied to bounded sets of values             *)
(***************************************************************************)
\* a value of type sty is at hand, or a JSON document to be read as sty
InitSerde ==
    /\ client = NoClient
    /\ panicked = NoPanic
    /\ calls = [c \in CallIds |-> IdleCall]
    /\ sty \in SerdeTypes
    /\ sback = Pending
    /\ \/ sval \in ValuesOf(sty) /\ sjson = NoJson
       \/ sty \in DeTypes /\ sval = NoValue /\ sjson \in JsonLiterals

\* serde_json::to_value(&sval)
to_json ==
    /\ sval /= NoValue
    /\ sjson = NoJson
    /\ sjson' = Serialize(sty, sval)
    /\ UNCHANGED <<sval, sty, sback, clientVars>>

\* serde_json::from_value::<sty>(sjson)
from_json ==
    /\ sty \in DeTypes
    /\ sjson /= NoJson
    /\ sback = Pending
    /\ sback' = Deserialize(sty, sjson)
    /\ UNCHANGED <<sval, sty, sjson, clientVars>>

NextSerde == to_json \/ from_json

SpecSerde == InitSerde /\ [][NextSerde]_vars

(***************************************************************************)
(* Properties of the client                                                *)
(***************************************************************************)
Done(c) == calls[c].pc = "done"
Responded(c) == calls[c].response /= NoResponse
BodyParses(c) == calls[c].response.body.json_of = DecodedAs(calls[c].op)

\* C1: a finished call whose response had a non-success status returned the
\* status error, carrying the status code and the body text when the body
\* could be read; when the body read failed it is still the status error,
\* with the read failure in place of the text; it never returned Ok.
C1_StatusError ==
    \A c \in CallIds :
        (Done(c) /\ Responded(c) /\ ~is_success(calls[c].response.status)) =>
            /\ IsErr(calls[c].result)
            /\ calls[c].result.error.kind = "status"
            /\ calls[c].result.error.code = calls[c].response.status
            /\ IF calls[c].body_read_ok
               THEN calls[c].result.error.body = Debug(Ok(calls[c].response.body.text))
               ELSE IsErr(calls[c].result.error.body.of)

\* a call answered 400 whose body could not be read has finished
C1_Witness ==
    \E c \in CallIds :
        /\ Done(c) /\ Responded(c)
        /\ calls[c].response.status = 400
        /\ ~calls[c].body_read_ok
        /\ IsErr(calls[c].result)

\* C2: a finished call whose response had a success status and a body that
\* does not parse as the expected type returned a decode error, and that
\* error differs in kind and in type from the status error of every call
\* answered with a non-success status.
C2_DecodeErrorDistinct ==
    \A c \in CallIds :
        (Done(c) /\ Responded(c) /\ is_success(calls[c].response.status)
                 /\ ~BodyParses(c)) =>
            /\ IsErr(calls[c].result)
            /\ calls[c].result.error.kind = "decode"
            /\ \A d \in CallIds :
                (Done(d) /\ Responded(d) /\ ~is_success(calls[d].response.status)) =>
                    /\ IsErr(calls[d].result)
                    /\ calls[d].result.error.kind /= calls[c].result.error.kind
                    /\ calls[d].result.error.is /= calls[c].result.error.is

\* one call answered 200 with an unparseable body and another answered 400
\* have both finished
C2_Witness ==
    \E c, d \in CallIds :
        /\ Done(c) /\ Responded(c) /\ is_success(calls[c].response.status)
        /\ calls[c].body_read_ok /\ ~BodyParses(c)
        /\ Done(d) /\ Responded(d) /\ ~is_success(calls[d].response.status)

HasApiKeyHeader(request) == \E h \in request.headers : h[1] = "x-api-key"

\* C4: every request sent through a client constructed with an API key
\* carries x-api-key with exactly that key and no other value, and no
\* request sent through a client constructed without one carries x-api-key.
C4_ApiKeyHeader ==
    \A c \in CallIds : \A i \in 1..Len(calls[c].wire) :
        LET request == calls[c].wire[i]
        IN  IF client.api_key.tag = "Some"
            THEN {h \in request.headers : h[1] = "x-api-key"}
                    = {<<"x-api-key", client.api_key.value>>}
            ELSE ~HasApiKeyHeader(request)

\* every call on a client constructed with the key "k1" has sent its request
C4_Witness ==
    /\ client /= NoClient
    /\ client.api_key = Some(<<107, 49>>)
    /\ \A c \in CallIds : Len(calls[c].wire) = 1
    /\ \E c, d \in CallIds : calls[c].op = "quote" /\ calls[d].op = "swap_instructions"

\* C8: a finished swap_instructions call that failed did so with a
\* transport, status or decode error; whenever the body decoded as
\* SwapInstructionsResponseInternal under a success status it returned the
\* converted SwapInstructionsResponse, and it returned Ok in no other case.
C8_ConversionTotal ==
    \A c \in CallIds :
        (Done(c) /\ calls[c].op = "swap_instructions") =>
            /\ IsErr(calls[c].result) =>
                  calls[c].result.error.kind \in {"transport", "status", "decode"}
            /\ (Responded(c) /\ is_success(calls[c].response.status)
                  /\ calls[c].body_read_ok
                  /\ calls[c].response.body = JsonOf("SwapInstructionsResponseInternal"))
               <=> IsOk(calls[c].result)
            /\ IsOk(calls[c].result) =>
                  calls[c].result.value =
                      [type |-> "SwapInstructionsResponse",
                       from |-> calls[c].response.body.text]

\* a swap_instructions call has returned a converted response
C8_Witness ==
    \E c \in CallIds :
        /\ Done(c) /\ calls[c].op = "swap_instructions"
        /\ IsOk(calls[c].result)
        /\ calls[c].result.value.type = "SwapInstructionsResponse"

\* what a call has to go on: its own operation, request and the server's
\* answer to it
OwnInputs(c) ==
    <<calls[c].op, calls[c].request, calls[c].response, calls[c].body_read_ok>>

\* every call that is under way can take its next step whatever the others do
NoCallWaits ==
    \A c \in CallIds :
        /\ (client /= NoClient /\ calls[c].pc = "idle") =>
              \A r \in Requests :
                  ENABLED quote(c, r) /\ ENABLED swap(c, r)
                      /\ ENABLED swap_instructions(c, r)
        /\ calls[c].pc = "send" =>
              ENABLED send_fails(c)
                  /\ \A r \in ResponsesTo(calls[c].wire[1]) : ENABLED send_completes(c, r)
        /\ calls[c].pc = "body" => \A ok \in BOOLEAN : ENABLED body_completes(c, ok)

\* two finished calls with the same inputs have the same outcome
SameInputsSameOutcome ==
    \A c, d \in CallIds :
        (Done(c) /\ Done(d) /\ OwnInputs(c) = OwnInputs(d)) =>
            calls[c].result = calls[d].result /\ calls[c].wire = calls[d].wire

\* a step changes the state of at most one call, and no step after
\* construction changes the client
StepsAreLocal ==
    /\ \A c, d \in CallIds :
          (c /= d /\ calls'[c] /= calls[c]) => calls'[d] = calls[d]
    /\ client /= NoClient => client' = client

\* C9: under every interleaving of the calls, a call's outcome depends only
\* on its own request and response, no call waits on another, a step of one
\* call leaves the others as they are, and the client's base path, API key
\* and transport configuration never change once constructed.
C9_CallsIndependent ==
    [](NoCallWaits /\ SameInputsSameOutcome) /\ [][StepsAreLocal]_vars

\* two calls are in flight together, one awaiting its response and one
\* reading its body
C9_Witness ==
    \E c, d \in CallIds : calls[c].pc = "send" /\ calls[d].pc = "body"

\* a step of new_with_api_key with a key that HeaderValue::from_str rejects
\* ends in the panic and leaves no client
C10_InvalidKeyStep ==
    \A b \in BasePaths, k \in ApiKeys, ok \in BOOLEAN :
        (IsErr(HeaderValue_from_str(k)) /\ new_with_api_key(b, k, ok)) =>
            /\ client' = NoClient
            /\ panicked' = Panic("unwrap on InvalidHeaderValue")

\* a client that holds a key holds one that is a header value, installed as
\* its x-api-key default header
C10_NoClientWithBadKey ==
    (client /= NoClient /\ client.api_key.tag = "Some") =>
        /\ IsOk(HeaderValue_from_str(client.api_key.value))
        /\ <<"x-api-key", client.api_key.value>> \in client.client.default_headers

\* C10: new_with_api_key with a key that cannot be encoded as a header value
\* panics and returns no client: neither an error value (it returns Self)
\* nor a client that lacks the x-api-key header.
C10_InvalidKeyPanics ==
    []C10_NoClientWithBadKey /\ [][C10_InvalidKeyStep]_vars

\* construction with the key "k\n" has panicked
C10_Witness ==
    /\ panicked = Panic("unwrap on InvalidHeaderValue")
    /\ client = NoClient

(***************************************************************************)
(* Properties of the serde representation                                  *)
(***************************************************************************)
OptionalKeys ==
    {camelCase("fee_account"), camelCase("destination_token_account"),
     camelCase("compute_unit_price_micro_lamports"),
     camelCase("prioritization_fee_lamports"), camelCase("blockhash_slots_to_expiry")}
BoolKeys ==
    {camelCase("wrap_and_unwrap_sol"), camelCase("dynamic_compute_unit_limit"),
     camelCase("as_legacy_transaction"), camelCase("use_shared_accounts"),
     camelCase("use_token_ledger")}

SerializedDefault ==
    /\ sty = "TransactionConfig"
    /\ sval = TransactionConfig_default
    /\ sjson /= NoJson

DefaultBooleans(fields) ==
    /\ BoolKeys \subseteq DOMAIN fields
    /\ fields["wrapAndUnwrapSol"] = JBool(TRUE)
    /\ fields["useSharedAccounts"] = JBool(TRUE)
    /\ fields["dynamicComputeUnitLimit"] = JBool(FALSE)
    /\ fields["asLegacyTransaction"] = JBool(FALSE)
    /\ fields["useTokenLedger"] = JBool(FALSE)

IsAutoValue ==
    /\ sty \in DeTypes
    /\ sval /= NoValue
    /\ sval.v = "Auto"

\* C6: for both ComputeUnitPriceMicroLamports and PrioritizationFeeLamports,
\* Auto is written as the string "auto", the string "auto" is read as Auto,
\* and reading back what was written for Auto gives Auto, never a numeric
\* variant.
C6_AutoIsLiteralAuto ==
    /\ (IsAutoValue /\ sjson /= NoJson) => sjson = JStr("auto")
    /\ (IsAutoValue /\ sback /= Pending) => sback = Ok(sval)
    /\ (sty \in DeTypes /\ sval = NoValue /\ sjson = JStr("auto") /\ sback /= Pending) =>
          sback = Ok([v |-> "Auto"])

IsMultiplierOrTip ==
    /\ sty = "PrioritizationFeeLamports"
    /\ sval /= NoValue
    /\ sval.v \in {"AutoMultiplier", "JitoTipLamports"}

\* C7: PrioritizationFeeLamports::AutoMultiplier(n) and JitoTipLamports(n)
\* are each written as an object tagged with their own variant name, and
\* reading back what was written gives the same variant with the same n.
C7_RoundTrip ==
    /\ (IsMultiplierOrTip /\ sjson /= NoJson) =>
          /\ sjson.j = "obj"
          /\ DOMAIN sjson.fields = {camelCase(sval.v)}
    /\ (IsMultiplierOrTip /\ sback /= Pending) =>
          /\ IsOk(sback)
          /\ sback.value.v = sval.v
          /\ sback.value.n = sval.n

\* JitoTipLamports(MaxN) has been written and read back
C7_Witness ==
    /\ sty = "PrioritizationFeeLamports"
    /\ sval = JitoTipLamports(MaxN)
    /\ sback = Ok(JitoTipLamports(MaxN))

====
